---- MODULE Spec2Model ----
(***************************************************************************)
(* Model of the grid-patrol solver (src/bin/day6.rs): Map::new,            *)
(* Guard::find, Guard::patrol and count_loops, driven as main drives them. *)
(*                                                                         *)
(* Indices are the program's 0-based usize indices; the element of a Vec   *)
(* at index i is element i + 1 of the sequence that models it.             *)
(* Option<T> is modelled as a sequence of length 0 (None) or 1 (Some).     *)
(***************************************************************************)
EXTENDS Integers, Sequences, FiniteSets, TLC

VARIABLES
    text,       \* the input string handed to Map::new, a sequence of chars
    pc,         \* position in main / count_loops
    map,        \* Option<Map>: <<>> or <<[tiles, width]>>
    guard,      \* Option<Guard>: the baseline guard of main
    err,        \* the Error main or count_loops ended with, or "none"
    hist,       \* history: (position, direction) at the start of each finished iteration of the running patrol
    order,      \* iteration order of the candidate set handed to count_loops
    map0,       \* history: the tiles of the map when count_loops was entered
    base_guard, \* count_loops: base_guard
    remaining,  \* count_loops: candidates the iterator has not yielded yet
    tile,       \* count_loops: the candidate of the running trial, <<>> between trials
    trial,      \* count_loops: Option<Guard>, the guard of the running trial
    loops,      \* count_loops: loops
    last,       \* history: Option<[tile, status]>, the candidate and the result of the last finished trial
    eq,         \* day7: the Equation [result, values] under test
    verdict,    \* day7: Option<bool>, what Equation::is_valid returned
    rules,      \* day5: the rules, a sequence of [x, y]
    update,     \* day5: the pages of the Update under correction
    update0     \* day5 history: the pages of the Update before apply_all

\* the variables of day6, of day7 and day5, and all of them
d6vars == <<text, pc, map, guard, err, hist, order, map0, base_guard, remaining, tile, trial, loops, last>>
d57vars == <<eq, verdict, rules, update, update0>>
vars == <<d6vars, d57vars>>

(***************************************************************************)
(* Bounds of the model.                                                    *)
(***************************************************************************)
MaxTextLen == 5
MaxWidth == 4
MaxHeight == 3
MaxTiles == 12
MaxObstacles == 4
MaxAnyTiles == 6
MaxAnyObstacles == 2
MaxCandidates == 2
MaxResult == 120
MaxValue == 11
MaxValues == 3
MaxPage == 3
MaxRules == 2

(***************************************************************************)
(* Option                                                                  *)
(***************************************************************************)
None == <<>>
Some(x) == <<x>>
IsSome(o) == o /= <<>>

(***************************************************************************)
(* Direction and Tile                                                      *)
(***************************************************************************)
Direction == {"Up", "Down", "Left", "Right"}

Ignored == <<"Ignored">>
Occupied == <<"Occupied">>
GuardTile(d) == <<"Guard", d>>
IsGuardTile(t) == t[1] = "Guard"

\* mutant: < and > exchanged
DirectionFromCharSwapped(c) ==
    CASE c = "^" -> Some("Up")
      [] c = "v" -> Some("Down")
      [] c = "<" -> Some("Right")
      [] c = ">" -> Some("Left")
      [] OTHER -> None

\* impl TryFrom<char> for Direction
DirectionFromChar(c) ==
    CASE c = "^" -> Some("Up")
      [] c = "v" -> Some("Down")
      [] c = "<" -> Some("Left")
      [] c = ">" -> Some("Right")
      [] OTHER -> None

\* impl TryFrom<char> for Tile
TileFromChar(c) ==
    CASE c = "." -> Some(Ignored)
      [] c = "#" -> Some(Occupied)
      [] c \in {"^", "v", "<", ">"} -> Some(GuardTile(DirectionFromChar(c)[1]))
      [] OTHER -> None

(***************************************************************************)
(* Map                                                                     *)
(***************************************************************************)
\* str::split('\n'): the rows of s; always at least one row
RECURSIVE SplitLines(_)
SplitLines(s) ==
    IF \A i \in 1..Len(s) : s[i] /= "\n"
    THEN <<s>>
    ELSE LET i == CHOOSE k \in 1..Len(s) : s[k] = "\n" /\ \A j \in 1..(k - 1) : s[j] /= "\n"
         IN  <<SubSeq(s, 1, i - 1)>> \o SplitLines(SubSeq(s, i + 1, Len(s)))

\* Iterator::flatten over the rows
RECURSIVE Flatten(_)
Flatten(rows) ==
    IF rows = <<>> THEN <<>> ELSE Head(rows) \o Flatten(Tail(rows))

\* Map::new: Some(map), or None for Err(InvalidTile)
MapNew(s) ==
    LET rows == SplitLines(s)
        conv == [r \in 1..Len(rows) |-> [c \in 1..Len(rows[r]) |-> TileFromChar(rows[r][c])]]
    IN  IF \E r \in 1..Len(rows) : \E c \in 1..Len(rows[r]) : conv[r][c] = None
        THEN None
        ELSE LET tiles == [r \in 1..Len(rows) |-> [c \in 1..Len(rows[r]) |-> conv[r][c][1]]]
             IN  Some([tiles |-> Flatten(tiles), width |-> Len(tiles[1])])

\* Map::count_obstacles
CountObstacles(m) == Cardinality({i \in 1..Len(m.tiles) : m.tiles[i] = Occupied})

(***************************************************************************)
(* Guard                                                                   *)
(***************************************************************************)
\* mutant: the last guard tile in index order
GuardFindLast(m) ==
    IF \E i \in 1..Len(m.tiles) : IsGuardTile(m.tiles[i])
    THEN LET i == CHOOSE k \in 1..Len(m.tiles) :
                      IsGuardTile(m.tiles[k]) /\ \A j \in (k + 1)..Len(m.tiles) : ~IsGuardTile(m.tiles[j])
         IN  Some([direction |-> m.tiles[i][2], position |-> i - 1,
                   visited |-> <<>>, obstacles |-> <<>>])
    ELSE None

\* Guard::find: the first guard tile in index order
GuardFind(m) ==
    IF \E i \in 1..Len(m.tiles) : IsGuardTile(m.tiles[i])
    THEN LET i == CHOOSE k \in 1..Len(m.tiles) :
                      IsGuardTile(m.tiles[k]) /\ \A j \in 1..(k - 1) : ~IsGuardTile(m.tiles[j])
         IN  Some([direction |-> m.tiles[i][2], position |-> i - 1,
                   visited |-> <<>>, obstacles |-> <<>>])
    ELSE None

\* Guard::unique_visits
UniqueVisits(g) == {g.visited[i] : i \in 1..Len(g.visited)}

\* mutant: the turn from Down skips Left
TurnSkipsLeft(d) ==
    CASE d = "Up" -> "Right"
      [] d = "Down" -> "Up"
      [] d = "Left" -> "Up"
      [] d = "Right" -> "Down"

\* mutant: the turn goes counter-clockwise
TurnCounterClockwise(d) ==
    CASE d = "Up" -> "Left"
      [] d = "Down" -> "Right"
      [] d = "Left" -> "Down"
      [] d = "Right" -> "Up"

\* Guard::turn
Turn(d) ==
    CASE d = "Up" -> "Right"
      [] d = "Down" -> "Left"
      [] d = "Left" -> "Up"
      [] d = "Right" -> "Down"

\* Guard::compute_offset
ComputeOffset(g, m) ==
    CASE g.direction = "Up" -> -(m.width)
      [] g.direction = "Down" -> m.width
      [] g.direction = "Left" -> -1
      [] g.direction = "Right" -> 1

\* usize::checked_add_signed: None when the sum is below 0
CheckedAddSigned(p, offset) == IF p + offset < 0 THEN None ELSE Some(p + offset)

\* mutant: the row check is made for Left only, Right is checked by index
IsOutOfBoundsRightWraps(g, next_pos, m) ==
    IF g.direction = "Left"
    THEN next_pos \div m.width /= g.position \div m.width
    ELSE next_pos >= Len(m.tiles)

\* mutant: the index range is tested for every direction, the row never
IsOutOfBoundsIndexOnly(g, next_pos, m) == next_pos >= Len(m.tiles)

\* Guard::is_out_of_bounds
IsOutOfBounds(g, next_pos, m) ==
    IF g.direction \in {"Up", "Down"}
    THEN next_pos >= Len(m.tiles)
    ELSE (next_pos \div m.width) /= (g.position \div m.width)

\* mutant: every strike is logged and none is reported
LogObstacleNeverFails(obstacles, pos, direction) ==
    LET entry == IF pos \in DOMAIN obstacles THEN obstacles[pos] ELSE {}
    IN  Some([p \in (DOMAIN obstacles) \cup {pos} |->
                 IF p = pos THEN entry \cup {direction} ELSE obstacles[p]])

\* mutant: a second strike of an obstacle is reported whatever the direction
LogObstacleAnyDirection(obstacles, pos, direction) ==
    IF pos \notin DOMAIN obstacles
    THEN Some([p \in (DOMAIN obstacles) \cup {pos} |->
                  IF p = pos THEN {direction} ELSE obstacles[p]])
    ELSE None

\* Guard::log_obstacle: the obstacles map after the call, or None for Err(InfiniteLoop).
\* The HashMap is a function from the logged positions to sets of directions.
LogObstacle(obstacles, pos, direction) ==
    LET entry == IF pos \in DOMAIN obstacles THEN obstacles[pos] ELSE {}
    IN  IF direction \notin entry
        THEN Some([p \in (DOMAIN obstacles) \cup {pos} |->
                      IF p = pos THEN entry \cup {direction} ELSE obstacles[p]])
        ELSE None

\* mutant: the position is pushed to visited on a bump too
PatrolIterBumpVisits(g, m) ==
    LET offset == ComputeOffset(g, m)
        next == CheckedAddSigned(g.position, offset)
    IN  IF next = None
        THEN [guard |-> g, status |-> "Ok"]
        ELSE LET next_pos == next[1]
             IN  IF IsOutOfBounds(g, next_pos, m)
                 THEN [guard |-> [g EXCEPT !.visited = Append(@, g.position)], status |-> "Ok"]
                 ELSE IF m.tiles[next_pos + 1] = Occupied
                 THEN LET logged == LogObstacle(g.obstacles, next_pos, g.direction)
                      IN  IF logged = None
                          THEN [guard |-> g, status |-> "InfiniteLoop"]
                          ELSE [guard |-> [g EXCEPT !.obstacles = logged[1],
                                                    !.direction = Turn(g.direction),
                                                    !.visited = Append(@, g.position)],
                                status |-> "Running"]
                 ELSE [guard |-> [g EXCEPT !.visited = Append(@, g.position),
                                           !.position = next_pos],
                       status |-> "Running"]

\* One iteration of the loop of Guard::patrol: the guard after it and whether
\* the loop goes on ("Running"), patrol returned Ok(()) or Err(InfiniteLoop).
PatrolIter(g, m) ==
    LET offset == ComputeOffset(g, m)
        next == CheckedAddSigned(g.position, offset)
    IN  IF next = None
        THEN [guard |-> g, status |-> "Ok"]
        ELSE LET next_pos == next[1]
             IN  IF IsOutOfBounds(g, next_pos, m)
                 THEN [guard |-> [g EXCEPT !.visited = Append(@, g.position)], status |-> "Ok"]
                 ELSE IF m.tiles[next_pos + 1] = Occupied
                 THEN LET logged == LogObstacle(g.obstacles, next_pos, g.direction)
                      IN  IF logged = None
                          THEN [guard |-> g, status |-> "InfiniteLoop"]
                          ELSE [guard |-> [g EXCEPT !.obstacles = logged[1],
                                                    !.direction = Turn(g.direction)],
                                status |-> "Running"]
                 ELSE [guard |-> [g EXCEPT !.visited = Append(@, g.position),
                                           !.position = next_pos],
                       status |-> "Running"]

(***************************************************************************)
(* count_loops helpers                                                     *)
(***************************************************************************)
\* mutant: the trial goes on with the guard of the trial before it
CloneGuardStale(b) == IF trial /= None THEN trial[1] ELSE b

\* count_loops: let mut guard = base_guard.clone()
CloneGuard(b) == b

\* count_loops: map.tiles[tile] = Tile::Occupied
PlaceObstacle(tiles, t) == [tiles EXCEPT ![t + 1] = Occupied]

\* mutant: a trial that ends in Err(InfiniteLoop) returns before the restore
RestoreTileSkippedOnLoop(tiles, t) ==
    IF PatrolIter(trial[1], [map[1] EXCEPT !.tiles = tiles]).status = "InfiniteLoop"
    THEN tiles
    ELSE [tiles EXCEPT ![t + 1] = Ignored]

\* mutant: the obstacle of a trial is left in place
RestoreTileSkipped(tiles, t) == tiles

\* count_loops: map.tiles[tile] = Tile::Ignored
RestoreTile(tiles, t) == [tiles EXCEPT ![t + 1] = Ignored]

\* mutant: the guard's own tile is tried like any other candidate
SkipCandidateNever(t, b) == FALSE

\* count_loops: if tile == base_guard.position { continue; }
SkipCandidate(t, b) == t = b.position

\* count_loops: if let Err(Error::InfiniteLoop) = guard.patrol(map) { loops += 1; }
Tally(n, status) == IF status = "InfiniteLoop" THEN n + 1 ELSE n

\* The candidates the iterator of the HashSet may yield next: a HashSet iterates
\* in an arbitrary order ("any"); "asc" and "desc" fix two of the orders.
SetMin(S) == CHOOSE x \in S : \A y \in S : x <= y
SetMax(S) == CHOOSE x \in S : \A y \in S : x >= y
NextYield(S, o) ==
    CASE S = {} -> {}
      [] S /= {} /\ o = "asc" -> {SetMin(S)}
      [] S /= {} /\ o = "desc" -> {SetMax(S)}
      [] OTHER -> S

(***************************************************************************)
(* Inputs                                                                  *)
(***************************************************************************)
Chars == {".", "#", "^", "v", "<", ">", "X", "\n"}
GuardChars == {"^", "v", "<", ">"}

RECURSIVE SeqsUpTo(_, _)
SeqsUpTo(S, n) ==
    IF n = 0 THEN {<<>>}
    ELSE LET shorter == SeqsUpTo(S, n - 1)
         IN  shorter \cup {Append(q, x) : q \in {p \in shorter : Len(p) = n - 1}, x \in S}

\* every string of at most MaxTextLen characters
Texts == SeqsUpTo(Chars, MaxTextLen)

RECURSIVE SubsetsUpTo(_, _)
SubsetsUpTo(P, k) ==
    IF k = 0 \/ P = {} THEN {{}}
    ELSE LET x == CHOOSE y \in P : TRUE
         IN  SubsetsUpTo(P \ {x}, k) \cup {T \cup {x} : T \in SubsetsUpTo(P \ {x}, k - 1)}

\* the text of the w x h grid with the guard character gc at index gp and
\* obstacles at the indices of obst: rows joined by newlines, none after the last
GridText(w, h, gp, gc, obst) ==
    [k \in 1..(h * (w + 1) - 1) |->
        LET row == (k - 1) \div (w + 1)
            col == (k - 1) % (w + 1)
            i == row * w + col
        IN  IF col = w THEN "\n"
            ELSE IF i = gp THEN gc
            ELSE IF i \in obst THEN "#"
            ELSE "."]

\* text is a rectangular grid of at most MaxWidth x MaxHeight and at most
\* MaxTiles tiles with exactly one guard and at most MaxObstacles obstacles
IsGridText(t) ==
    \E w \in 1..MaxWidth, h \in 1..MaxHeight :
        /\ w * h <= MaxTiles
        /\ \E gp \in 0..(w * h - 1), gc \in GuardChars :
               \E obst \in SubsetsUpTo((0..(w * h - 1)) \ {gp}, MaxObstacles) :
                   t = GridText(w, h, gp, gc, obst)

\* text is a rectangular grid of at most MaxAnyTiles tiles with exactly one
\* guard and at most MaxAnyObstacles obstacles
IsSmallGridText(t) ==
    \E w \in 1..MaxWidth, h \in 1..MaxHeight :
        /\ w * h <= MaxAnyTiles
        /\ \E gp \in 0..(w * h - 1), gc \in GuardChars :
               \E obst \in SubsetsUpTo((0..(w * h - 1)) \ {gp}, MaxAnyObstacles) :
                   t = GridText(w, h, gp, gc, obst)

\* the grid of tests::get_test_data
SampleText == GridText(10, 10, 64, "^", {4, 19, 32, 47, 61, 78, 80, 96})

(***************************************************************************)
(* main                                                                    *)
(***************************************************************************)
\* the locals of main and count_loops before main starts
InitDay6 ==
    /\ map = None
    /\ guard = None
    /\ err = "none"
    /\ hist = {}
    /\ map0 = <<>>
    /\ base_guard = None
    /\ remaining = {}
    /\ tile = None
    /\ trial = None
    /\ loops = 0
    /\ last = None

\* day7 and day5 are separate programs: their state is empty while day6 runs
IdleDay7 == eq = [result |-> 0, values |-> <<>>] /\ verdict = None
IdleDay5 == rules = <<>> /\ update = <<>> /\ update0 = <<>>
IdleDay6 == text = <<>> /\ order = "any" /\ InitDay6

InitWith(orders) ==
    /\ order \in orders
    /\ pc = "new"
    /\ InitDay6
    /\ IdleDay7
    /\ IdleDay5

\* main: let mut map = Map::new(&data)?;
DoMapNew ==
    /\ pc = "new"
    /\ map' = MapNew(text)
    /\ pc' = IF map' = None THEN "failed" ELSE "find"
    /\ err' = IF map' = None THEN "InvalidTile" ELSE err
    /\ UNCHANGED <<text, guard, hist, order, map0, base_guard, remaining, tile, trial, loops, last>>
    /\ UNCHANGED d57vars

\* main: let mut guard = Guard::find(&map).ok_or(Error::NoGuard)?;
DoGuardFind ==
    /\ pc = "find"
    /\ guard' = GuardFind(map[1])
    /\ pc' = IF guard' = None THEN "failed" ELSE "patrol"
    /\ err' = IF guard' = None THEN "NoGuard" ELSE err
    /\ UNCHANGED <<text, map, hist, order, map0, base_guard, remaining, tile, trial, loops, last>>
    /\ UNCHANGED d57vars

\* main: guard.patrol(&map)?; one iteration of the loop of patrol
DoPatrol ==
    /\ pc = "patrol"
    /\ LET r == PatrolIter(guard[1], map[1])
       IN  /\ guard' = Some(r.guard)
           /\ hist' = IF r.status = "InfiniteLoop" THEN hist
                      ELSE hist \cup {<<guard[1].position, guard[1].direction>>}
           /\ pc' = CASE r.status = "Running" -> "patrol"
                      [] r.status = "Ok" -> "count_loops"
                      [] r.status = "InfiniteLoop" -> "failed"
           /\ err' = IF r.status = "InfiniteLoop" THEN "InfiniteLoop" ELSE err
    /\ UNCHANGED <<text, map, order, map0, base_guard, remaining, tile, trial, loops, last>>
    /\ UNCHANGED d57vars

\* count_loops(guard.unique_visits(), &mut map): entry, up to the for loop
DoCountLoops ==
    /\ pc = "count_loops"
    /\ base_guard' = GuardFind(map[1])
    /\ pc' = IF base_guard' = None THEN "failed" ELSE "for"
    /\ err' = IF base_guard' = None THEN "NoGuard" ELSE err
    /\ loops' = 0
    /\ remaining' = UniqueVisits(guard[1])
    /\ map0' = map[1].tiles
    /\ hist' = {}
    /\ last' = None
    /\ UNCHANGED <<text, map, guard, order, tile, trial>>
    /\ UNCHANGED d57vars

\* count_loops(tiles, &mut map) called on a fresh map with any candidates that
\* index the grid, as a caller other than main may do: entry, up to the for loop
DoCountLoopsAny ==
    /\ pc = "find"
    /\ base_guard' = GuardFind(map[1])
    /\ pc' = IF base_guard' = None THEN "failed" ELSE "for"
    /\ err' = IF base_guard' = None THEN "NoGuard" ELSE err
    /\ loops' = 0
    /\ remaining' \in SubsetsUpTo(0..(Len(map[1].tiles) - 1), MaxCandidates)
    /\ map0' = map[1].tiles
    /\ hist' = {}
    /\ last' = None
    /\ UNCHANGED <<text, map, guard, order, tile, trial>>
    /\ UNCHANGED d57vars

\* count_loops: the iterator yields the next candidate; the start is skipped,
\* any other candidate is obstructed and a fresh trial guard is cloned
DoForNext ==
    /\ pc = "for"
    /\ \E t \in NextYield(remaining, order) :
        /\ remaining' = remaining \ {t}
        /\ IF SkipCandidate(t, base_guard[1])
           THEN UNCHANGED <<pc, map, tile, trial, hist>>
           ELSE /\ trial' = Some(CloneGuard(base_guard[1]))
                /\ map' = Some([map[1] EXCEPT !.tiles = PlaceObstacle(@, t)])
                /\ tile' = Some(t)
                /\ hist' = {}
                /\ pc' = "trial"
    /\ UNCHANGED <<text, guard, err, order, map0, base_guard, loops, last>>
    /\ UNCHANGED d57vars

\* count_loops: one iteration of the loop of the trial's patrol; when patrol
\* returns, the loop is tallied and the candidate tile is set to Ignored
DoTrial ==
    /\ pc = "trial"
    /\ LET r == PatrolIter(trial[1], map[1])
       IN  /\ trial' = Some(r.guard)
           /\ IF r.status = "Running"
              THEN /\ hist' = hist \cup {<<trial[1].position, trial[1].direction>>}
                   /\ UNCHANGED <<pc, map, tile, loops, last>>
              ELSE /\ hist' = IF r.status = "InfiniteLoop" THEN hist
                              ELSE hist \cup {<<trial[1].position, trial[1].direction>>}
                   /\ loops' = Tally(loops, r.status)
                   /\ map' = Some([map[1] EXCEPT !.tiles = RestoreTile(@, tile[1])])
                   /\ tile' = None
                   /\ last' = Some([tile |-> tile[1], status |-> r.status])
                   /\ pc' = "for"
    /\ UNCHANGED <<text, guard, err, order, map0, base_guard, remaining>>
    /\ UNCHANGED d57vars

\* count_loops: the iterator is exhausted, Ok(loops) is returned
DoForEnd ==
    /\ pc = "for"
    /\ remaining = {}
    /\ pc' = "done"
    /\ UNCHANGED <<text, map, guard, err, hist, order, map0, base_guard, remaining, tile, trial, loops, last>>
    /\ UNCHANGED d57vars

(***************************************************************************)
(* day7: Equation::is_valid (src/bin/day7.rs)                              *)
(***************************************************************************)
\* u64::checked_ilog10 of a positive number
RECURSIVE ILog10(_)
ILog10(y) == IF y < 10 THEN 0 ELSE 1 + ILog10(y \div 10)

\* 10u64.pow(n)
RECURSIVE Pow10(_)
Pow10(n) == IF n = 0 THEN 1 ELSE 10 * Pow10(n - 1)

\* disjoin: Some(x without its decimal suffix y), or None
Disjoin(x, y) ==
    IF y = 0 THEN None
    ELSE LET digits == ILog10(y) + 1
             divisor == Pow10(digits)
         IN  IF y > x \/ x % divisor /= y THEN None ELSE Some(x \div divisor)

\* Equation::is_valid; IsValidLoop is its for loop from the i-th value from
\* the end on, with the running total
RECURSIVE IsValid(_, _), IsValidLoop(_, _, _)
IsValid(result, values) ==
    IF (values = <<>> /\ result = 1) \/ (Len(values) = 1 /\ result = values[1])
    THEN TRUE
    ELSE IsValidLoop(values, result, 0)

IsValidLoop(values, total, i) ==
    IF i = Len(values) THEN FALSE
    ELSE LET v == values[Len(values) - i]
             prefix == SubSeq(values, 1, Len(values) - (i + 1))
         IN  IF v > total THEN FALSE
             ELSE IF total % v = 0 /\ IsValid(total \div v, prefix) THEN TRUE
             ELSE IF Disjoin(total, v) /= None /\ IsValid(Disjoin(total, v)[1], prefix) THEN TRUE
             ELSE IsValidLoop(values, total - v, i + 1)

\* the equations under test: results up to MaxResult, at most MaxValues values
\* of 1..MaxValue
Equations ==
    {[result |-> r, values |-> vs] : r \in 0..MaxResult, vs \in SeqsUpTo(1..MaxValue, MaxValues)}

InitEq ==
    /\ pc = "is_valid"
    /\ eq \in Equations
    /\ verdict = None
    /\ IdleDay6
    /\ IdleDay5

\* tests: e.is_valid()
DoIsValid ==
    /\ pc = "is_valid"
    /\ verdict' = Some(IsValid(eq.result, eq.values))
    /\ pc' = "is_valid_done"
    /\ UNCHANGED <<eq, rules, update, update0>>
    /\ UNCHANGED <<text, map, guard, err, hist, order, map0, base_guard, remaining, tile, trial, loops, last>>

(***************************************************************************)
(* day5: Update::apply_all (src/bin/day5.rs)                               *)
(***************************************************************************)
\* update.iter().position(|&n| n == page): the first index of page, 0-based
Position(u, page) ==
    IF \E i \in 1..Len(u) : u[i] = page
    THEN Some((CHOOSE i \in 1..Len(u) : u[i] = page /\ \A j \in 1..(i - 1) : u[j] /= page) - 1)
    ELSE None

\* Rule::is_valid
RuleIsValid(r, u) ==
    LET x_pos == Position(u, r.x)
        y_pos == Position(u, r.y)
    IN  IF x_pos /= None /\ y_pos /= None THEN x_pos[1] < y_pos[1] ELSE TRUE

\* Update::is_valid
UpdateIsValid(u, rs) == \A k \in 1..Len(rs) : RuleIsValid(rs[k], u)

\* Update::next_failed_rule: the first rule, in the order given, that fails
NextFailedRule(u, rs) ==
    IF \E k \in 1..Len(rs) : ~RuleIsValid(rs[k], u)
    THEN Some(rs[CHOOSE k \in 1..Len(rs) :
                    /\ ~RuleIsValid(rs[k], u)
                    /\ \A j \in 1..(k - 1) : RuleIsValid(rs[j], u)])
    ELSE None

\* mutant: the pages right after x and y are swapped
ApplyShifted(u, rule) ==
    LET x_pos == (Position(u, rule.x)[1] + 1) % Len(u)
        y_pos == (Position(u, rule.y)[1] + 1) % Len(u)
    IN  [u EXCEPT ![x_pos + 1] = u[y_pos + 1], ![y_pos + 1] = u[x_pos + 1]]

\* Update::apply: self.0.swap(x_pos, y_pos)
Apply(u, rule) ==
    LET x_pos == Position(u, rule.x)[1]
        y_pos == Position(u, rule.y)[1]
    IN  [u EXCEPT ![x_pos + 1] = u[y_pos + 1], ![y_pos + 1] = u[x_pos + 1]]

Pages == 1..MaxPage
Rules == {[x |-> a, y |-> b] : a \in Pages, b \in Pages}

\* the rules of rs that name two pages of u admit an order of those pages
Acyclic(rs, u) ==
    LET ps == {u[i] : i \in 1..Len(u)}
    IN  \E f \in [ps -> 1..Cardinality(ps)] :
            \A k \in 1..Len(rs) :
                (rs[k].x \in ps /\ rs[k].y \in ps) => f[rs[k].x] < f[rs[k].y]

\* an update of at least one page without repeated pages, and rules that are
\* acyclic on its pages
InitFix ==
    /\ pc = "apply_all"
    /\ update \in {u \in SeqsUpTo(Pages, MaxPage) :
                       Len(u) >= 1 /\ \A i, j \in 1..Len(u) : u[i] = u[j] => i = j}
    /\ rules \in {rs \in SeqsUpTo(Rules, MaxRules) : Acyclic(rs, update)}
    /\ update0 = update
    /\ IdleDay6
    /\ IdleDay7

\* apply_all: while let Some(r) = self.next_failed_rule(rules) { self.apply(r); }
DoApply ==
    /\ pc = "apply_all"
    /\ NextFailedRule(update, rules) /= None
    /\ update' = Apply(update, NextFailedRule(update, rules)[1])
    /\ UNCHANGED <<pc, rules, update0, eq, verdict>>
    /\ UNCHANGED <<text, map, guard, err, hist, order, map0, base_guard, remaining, tile, trial, loops, last>>

\* apply_all: next_failed_rule is None, the loop ends
DoApplyEnd ==
    /\ pc = "apply_all"
    /\ NextFailedRule(update, rules) = None
    /\ pc' = "fixed"
    /\ UNCHANGED d57vars
    /\ UNCHANGED <<text, map, guard, err, hist, order, map0, base_guard, remaining, tile, trial, loops, last>>

(***************************************************************************)
(* Specifications                                                          *)
(***************************************************************************)
\* main on the sample grid of the tests, the candidates in ascending or descending order
InitSample == text = SampleText /\ InitWith({"asc", "desc"})

\* main on every bounded rectangular grid with one guard, the candidates in any
\* order, and on the sample grid
Init == (IsGridText(text) /\ InitWith({"any"})) \/ InitSample
Next == DoMapNew \/ DoGuardFind \/ DoPatrol \/ DoCountLoops \/ DoForNext \/ DoTrial \/ DoForEnd
Spec == Init /\ [][Next]_vars

\* Map::new and Guard::find on every bounded string
InitParse == text \in Texts /\ InitWith({"any"})
NextParse == DoMapNew \/ DoGuardFind
SpecParse == InitParse /\ [][NextParse]_vars

\* the baseline patrol alone; the loop of patrol runs on while it can
NextPatrol == DoMapNew \/ DoGuardFind \/ DoPatrol
SpecPatrol == Init /\ [][NextPatrol]_vars /\ WF_vars(DoPatrol)

SpecSample == InitSample /\ [][Next]_vars

\* count_loops on small grids with any candidates
InitAny == IsSmallGridText(text) /\ InitWith({"any"})
NextAny == DoMapNew \/ DoCountLoopsAny \/ DoForNext \/ DoTrial \/ DoForEnd
SpecAny == InitAny /\ [][NextAny]_vars

\* day5: Update::apply_all; the loop is sequential code, so it keeps running
NextFix == DoApply \/ DoApplyEnd
SpecFix == InitFix /\ [][NextFix]_vars /\ WF_vars(NextFix)

\* day7: Equation::is_valid on every bounded equation
NextEq == DoIsValid
SpecEq == InitEq /\ [][NextEq]_vars

(***************************************************************************)
(* Reference semantics of the patrol, on (row, column) coordinates: what   *)
(* the guard does on the grid by the move/turn rules of the puzzle.        *)
(***************************************************************************)
RefClockwise == <<"Up", "Right", "Down", "Left">>
RefTurn(d) == LET i == CHOOSE k \in 1..4 : RefClockwise[k] = d IN RefClockwise[(i % 4) + 1]
RefRowStep(d) == IF d = "Up" THEN -1 ELSE IF d = "Down" THEN 1 ELSE 0
RefColStep(d) == IF d = "Left" THEN -1 ELSE IF d = "Right" THEN 1 ELSE 0
RefHeight(m) == Len(m.tiles) \div m.width
RefInside(m, r, c) == r >= 0 /\ r < RefHeight(m) /\ c >= 0 /\ c < m.width
RefStart(m) == (CHOOSE i \in 1..Len(m.tiles) : IsGuardTile(m.tiles[i])) - 1

\* the guard at (r, c) heading d steps off the grid within fuel moves and turns
RECURSIVE RefLeavesFrom(_, _, _, _, _)
RefLeavesFrom(m, r, c, d, fuel) ==
    LET nr == r + RefRowStep(d)
        nc == c + RefColStep(d)
    IN  IF fuel = 0 THEN FALSE
        ELSE IF ~RefInside(m, nr, nc) THEN TRUE
        ELSE IF m.tiles[nr * m.width + nc + 1] = Occupied
             THEN RefLeavesFrom(m, r, c, RefTurn(d), fuel - 1)
             ELSE RefLeavesFrom(m, nr, nc, d, fuel - 1)

\* The guard of grid m, started at index start with heading d, leaves the grid.
\* There are 4 * tiles (position, heading) states, so a walk that has not left
\* after that many steps has repeated a state and never leaves.
RefLeaves(m, start, d) ==
    RefLeavesFrom(m, start \div m.width, start % m.width, d, 4 * Len(m.tiles) + 1)

\* grid m with the tile at index t replaced by an obstacle
RefObstructed(m, t) == [m EXCEPT !.tiles[t + 1] = Occupied]

\* the tiles the guard of the running patrol has stood on so far
Stood(g) == {h[1] : h \in hist} \cup {g.position}

BaselineOk == pc = "count_loops"
BaselineLoop == pc = "failed" /\ err = "InfiniteLoop"

(***************************************************************************)
(* Claims                                                                  *)
(***************************************************************************)

\* C1: when the baseline patrol returns Ok, unique_visits is exactly the set
\* of tiles the guard stood on, the last tile before leaving included,
\* whichever edge it leaves by.
C1_VisitsAreTilesStoodOn ==
    BaselineOk => UniqueVisits(guard[1]) = Stood(guard[1])

\* C2: every patrol on a rectangular grid with a guard ends, either with Ok
\* (the guard left the grid) or with Err(InfiniteLoop); it never runs forever.
C2_PatrolTerminates ==
    (pc = "patrol") ~> (BaselineOk \/ BaselineLoop)

\* a patrol that moved, turned and was then stopped as an infinite loop
C2_Witness ==
    BaselineLoop /\ Cardinality(UniqueVisits(guard[1])) >= 2

\* C3: patrol returns Err(InfiniteLoop) exactly when the guard never leaves
\* the grid, and only in a (position, heading) state the walk was in before;
\* it returns Ok exactly when the guard steps off the grid. This holds of the
\* baseline patrol and of every trial of count_loops on its obstructed grid.
C3_CycleDetectionExact ==
    LET m == map[1]
        start == RefStart(m)
        d == m.tiles[start + 1][2]
    IN  /\ BaselineLoop => (~RefLeaves(m, start, d)
                            /\ <<guard[1].position, guard[1].direction>> \in hist)
        /\ BaselineOk => RefLeaves(m, start, d)
        /\ (pc = "for" /\ last /= None) =>
              /\ (last[1].status = "InfiniteLoop") <=> ~RefLeaves(RefObstructed(m, last[1].tile), start, d)
              /\ (last[1].status = "InfiniteLoop") =>
                     <<trial[1].position, trial[1].direction>> \in hist

\* a trial that struck one obstacle from two headings and still left the grid
C3_Witness ==
    /\ pc = "for" /\ last /= None /\ last[1].status = "Ok"
    /\ \E p \in DOMAIN trial[1].obstacles : Cardinality(trial[1].obstacles[p]) >= 2

\* C4: count_loops returns the number of candidates, the start excluded, whose
\* obstruction makes the patrol from the original start never leave the grid,
\* whatever the order of the candidates; every trial starts at the original
\* start and heading with empty visited and obstacle history.
C4_CountLoopsCountsLoopingCandidates ==
    LET m == [tiles |-> map0, width |-> map[1].width]
        start == RefStart(m)
        d == m.tiles[start + 1][2]
    IN  /\ (pc = "done") =>
              loops = Cardinality({c \in UniqueVisits(guard[1]) \ {start} :
                                      ~RefLeaves(RefObstructed(m, c), start, d)})
        /\ (pc = "trial" /\ hist = {}) =>
              trial[1] = [direction |-> d, position |-> start,
                          visited |-> <<>>, obstacles |-> <<>>]
        /\ (pc = "trial") => (tile[1] /= start /\ IsGuardTile(map[1].tiles[start + 1]))

\* count_loops returned after trials that looped and trials that did not
C4_Witness ==
    /\ pc = "done"
    /\ order = "any"
    /\ loops >= 1
    /\ loops + 3 <= Cardinality(UniqueVisits(guard[1]))

\* C5: after count_loops over the tiles visited by the baseline patrol the
\* tile sequence of the grid is what it was before the call, and what Map::new
\* built: the guard's tile is the guard tile, no trial's obstacle is left.
C5_GridRestored ==
    (pc = "done") =>
        /\ map[1].tiles = map0
        /\ map = MapNew(text)
        /\ IsGuardTile(map[1].tiles[base_guard[1].position + 1])

\* count_loops returned after a trial that ended in a loop
C5_Witness ==
    /\ pc = "done"
    /\ loops >= 1
    /\ Len(map[1].tiles) > map[1].width

(***************************************************************************)
(* What the input text says, read off the characters themselves.           *)
(***************************************************************************)
RefHeading(c) ==
    CASE c = "^" -> "Up" [] c = "v" -> "Down" [] c = "<" -> "Left" [] c = ">" -> "Right"
RefTile(c) ==
    CASE c = "." -> Ignored [] c = "#" -> Occupied [] OTHER -> GuardTile(RefHeading(c))
RefValidText(t) == \A i \in 1..Len(t) : t[i] \in {".", "#", "^", "v", "<", ">", "\n"}
RefGuardChars(t) == {i \in 1..Len(t) : t[i] \in {"^", "v", "<", ">"}}
\* t is h rows of w characters each, joined by newlines
RefIsRect(t, w, h) ==
    /\ Len(t) = h * (w + 1) - 1
    /\ \A k \in 1..Len(t) : (t[k] = "\n") <=> (k % (w + 1) = 0)
RefRows(t) == Cardinality({i \in 1..Len(t) : t[i] = "\n"}) + 1

MapNewDone == pc /= "new"
FindDone == pc = "patrol" \/ (pc = "failed" /\ err = "NoGuard")

\* C6 as stated: Guard::find returns a guard exactly for the grids with
\* exactly one guard tile, and none for zero or for more than one.
C6_FindNeedsExactlyOneGuard ==
    FindDone => ((guard /= None) <=> (Cardinality(RefGuardChars(text)) = 1))

\* C6 as amended: Guard::find returns a guard exactly for the grids with at
\* least one guard tile: the guard tile of lowest index, with its heading and
\* with empty visited and obstacle history; it returns none only for a grid
\* without guard tiles.
C6_FindReturnsFirstGuard ==
    FindDone =>
        /\ (guard = None) <=> (RefGuardChars(text) = {})
        /\ (pc = "failed") <=> (guard = None)
        /\ guard /= None =>
              LET i == CHOOSE k \in RefGuardChars(text) : \A j \in RefGuardChars(text) : k <= j
              IN  guard[1] = [direction |-> RefHeading(text[i]),
                              position |-> Cardinality({j \in 1..(i - 1) : text[j] /= "\n"}),
                              visited |-> <<>>, obstacles |-> <<>>]

\* Guard::find answered on a grid with several guard tiles, the first of them
\* not at index 0
C6_Witness ==
    /\ pc = "patrol"
    /\ Cardinality(RefGuardChars(text)) >= 2
    /\ guard[1].position >= 1

\* C7: Map::new fails with InvalidTile and returns no Map when a character of
\* a row is outside . # ^ v < >; otherwise it succeeds, and on rows of equal
\* length the tile at index row * width + col is the tile of that character.
C7_MapNewParsesTiles ==
    MapNewDone =>
        /\ ~RefValidText(text) => (map = None /\ pc = "failed" /\ err = "InvalidTile")
        /\ RefValidText(text) =>
              /\ map /= None
              /\ err /= "InvalidTile"
              /\ \A w \in 1..MaxTextLen, h \in 1..MaxTextLen :
                    RefIsRect(text, w, h) =>
                        /\ map[1].width = w
                        /\ Len(map[1].tiles) = w * h
                        /\ \A r \in 0..(h - 1), c \in 0..(w - 1) :
                              map[1].tiles[r * w + c + 1] = RefTile(text[r * (w + 1) + c + 1])

\* Map::new built a grid of two rows of two tiles with a guard in the second row
C7_Witness ==
    /\ MapNewDone
    /\ map /= None
    /\ RefIsRect(text, 2, 2)
    /\ \E i \in 3..4 : IsGuardTile(map[1].tiles[i])

\* C8: every Map that Map::new returns has width > 0 and rows of equal
\* length, so that its tile sequence has width x height tiles.
C8_MapNewKeepsGridInvariant ==
    (MapNewDone /\ map /= None) =>
        /\ map[1].width > 0
        /\ RefIsRect(text, map[1].width, RefRows(text))
        /\ Len(map[1].tiles) = map[1].width * RefRows(text)

\* C9: on the sample grid (10 x 10, guard heading Up at index 64, 8
\* obstacles) the baseline patrol returns Ok and 41 distinct tiles are visited.
C9_SampleVisits41 ==
    /\ pc /= "failed"
    /\ pc = "find" =>
          (map[1].width = 10 /\ Len(map[1].tiles) = 100 /\ CountObstacles(map[1]) = 8)
    /\ pc = "patrol" /\ hist = {} => (guard[1].position = 64 /\ guard[1].direction = "Up")
    /\ pc \notin {"new", "find", "patrol"} => Cardinality(UniqueVisits(guard[1])) = 41

\* the baseline patrol of the sample grid has left the grid by its last row
C9_Witness ==
    /\ text = SampleText
    /\ BaselineOk
    /\ guard[1].position >= 90
    /\ guard[1].direction = "Down"

\* C10: on the sample grid count_loops over the tiles the baseline patrol
\* visited returns Ok(6).
C10_SampleLoops6 ==
    (pc = "done") => (loops = 6 /\ err = "none")

\* count_loops has returned on the sample grid after its last trial
C10_Witness ==
    /\ text = SampleText
    /\ pc = "done"
    /\ last /= None
    /\ Cardinality(UniqueVisits(guard[1])) > loops

\* the number of turns the guard has made: one per logged strike
RefTurns(g) ==
    LET RECURSIVE Sum(_)
        Sum(S) == IF S = {} THEN 0
                  ELSE LET p == CHOOSE q \in S : TRUE
                       IN  Cardinality(g.obstacles[p]) + Sum(S \ {p})
    IN  Sum(DOMAIN g.obstacles)

\* heading d rotated clockwise n times, by position in Up, Right, Down, Left
RefRotate(d, n) ==
    LET i == CHOOSE k \in 1..4 : RefClockwise[k] = d
    IN  RefClockwise[((i - 1 + n) % 4) + 1]

\* C11: Guard::turn rotates clockwise in the order Up, Right, Down, Left, Up:
\* one turn never keeps the heading, four turns give the heading back and
\* fewer never do; a patrolling guard that has turned n times heads where its
\* starting heading points after n clockwise quarter turns.
C11_TurnIsClockwiseFourCycle ==
    /\ \A d \in Direction :
          /\ Turn(d) = RefRotate(d, 1)
          /\ Turn(d) /= d
          /\ Turn(Turn(d)) /= d
          /\ Turn(Turn(Turn(d))) /= d
          /\ Turn(Turn(Turn(Turn(d)))) = d
    /\ guard /= None =>
          LET m == map[1]
              d0 == m.tiles[RefStart(m) + 1][2]
          IN  guard[1].direction = RefRotate(d0, RefTurns(guard[1]))

\* a patrolling guard that has turned four times and heads as it started
C11_Witness ==
    /\ pc = "patrol"
    /\ RefTurns(guard[1]) = 4
    /\ guard[1].direction = map[1].tiles[RefStart(map[1]) + 1][2]

(***************************************************************************)
(* day7: what an equation's values can produce, operator by operator.      *)
(***************************************************************************)
\* the decimal concatenation of a and b
RefConcat(a, b) ==
    LET n == CHOOSE k \in 1..20 : Pow10(k - 1) <= b /\ b < Pow10(k)
    IN  a * Pow10(n) + b

\* every result of the values with +, * or || between them, left to right
RECURSIVE RefResults(_)
RefResults(values) ==
    IF Len(values) = 1 THEN {values[1]}
    ELSE LET v == values[Len(values)]
             before == RefResults(SubSeq(values, 1, Len(values) - 1))
         IN  {r + v : r \in before} \cup {r * v : r \in before}
                 \cup {RefConcat(r, v) : r \in before}

\* C12: for an equation with positive values, is_valid is true exactly when
\* some choice of +, * and || between the values, evaluated left to right,
\* gives the result; with one value, exactly when the result is that value.
C12_IsValidMatchesOperators ==
    (verdict /= None /\ eq.values /= <<>>) =>
        (verdict[1] <=> eq.result \in RefResults(eq.values))

\* the tile ahead of guard g lies outside grid m, in (row, column) terms
RefAheadOutside(m, g) ==
    ~RefInside(m, (g.position \div m.width) + RefRowStep(g.direction),
                  (g.position % m.width) + RefColStep(g.direction))

\* C13: whenever the tile ahead of the guard lies outside the grid, the patrol
\* step pushes the guard's current position to visited and the patrol ends
\* with Ok; this for all four headings, a guard heading Up in the first row
\* and a guard heading Left at index 0 included.
C13_ExitRecordsPosition ==
    [][(pc = "patrol" /\ RefAheadOutside(map[1], guard[1])) =>
          /\ pc' = "count_loops"
          /\ guard'[1].visited = Append(guard[1].visited, guard[1].position)
          /\ guard'[1].position = guard[1].position]_vars

\* one patrol step from guard g to guard g2 on the grid's (row, column)
\* coordinates: a move goes to the neighbour in the heading, and at the left
\* or right end of a row heading outwards the guard stays and the run exits
RefNoWrapStep(m, g, g2, exited) ==
    LET r == g.position \div m.width
        c == g.position % m.width
    IN  /\ g2.position /= g.position =>
              /\ g2.position \div m.width = r + RefRowStep(g.direction)
              /\ g2.position % m.width = c + RefColStep(g.direction)
              /\ g2.direction = g.direction
        /\ ((g.direction = "Left" /\ c = 0) \/ (g.direction = "Right" /\ c = m.width - 1)) =>
              (g2.position = g.position /\ exited)

\* C14: horizontal moves never wrap across rows: on a rectangular grid every
\* position change of a patrol (baseline or trial) goes to the 4-neighbour in
\* the current heading, and a guard heading Left at column 0 or Right at the
\* last column exits the grid instead of moving into the adjacent row.
C14_MovesNeverWrap ==
    [][/\ (pc = "patrol") =>
              RefNoWrapStep(map[1], guard[1], guard'[1], pc' = "count_loops")
       /\ (pc = "trial") =>
              RefNoWrapStep(map[1], trial[1], trial'[1],
                            pc' = "for" /\ last'[1].status = "Ok")]_vars

\* the baseline guard walked left along a lower row and left at column 0
C14_Witness ==
    /\ BaselineOk
    /\ guard[1].direction = "Left"
    /\ guard[1].position % map[1].width = 0
    /\ guard[1].position >= map[1].width
    /\ Len(guard[1].visited) >= 3

\* the headings from which guard g has struck the obstacle at index a
RefStruck(g, a) == IF a \in DOMAIN g.obstacles THEN g.obstacles[a] ELSE {}

\* one patrol step from guard g to guard g2 when the tile ahead is an obstacle:
\* a first strike from this heading is logged and turns the guard in place,
\* a repeated strike ends the run (looped) with the guard as it was
RefBumpStep(m, g, g2, running, looped) ==
    LET nr == (g.position \div m.width) + RefRowStep(g.direction)
        nc == (g.position % m.width) + RefColStep(g.direction)
        a == nr * m.width + nc
    IN  (RefInside(m, nr, nc) /\ m.tiles[a + 1] = Occupied) =>
            IF g.direction \notin RefStruck(g, a)
            THEN /\ running
                 /\ DOMAIN g2.obstacles = DOMAIN g.obstacles \cup {a}
                 /\ g2.obstacles[a] = RefStruck(g, a) \cup {g.direction}
                 /\ \A p \in DOMAIN g.obstacles \ {a} : g2.obstacles[p] = g.obstacles[p]
                 /\ g2.direction = RefTurn(g.direction)
                 /\ g2.position = g.position
                 /\ g2.visited = g.visited
            ELSE /\ looped
                 /\ g2.position = g.position
                 /\ g2.direction = g.direction

\* C15: when the tile ahead is an obstacle not yet struck from the current
\* heading, the patrol step records (obstacle index, heading) in the approach
\* history, turns the heading clockwise once and leaves position and visited
\* unchanged; when the pair is already recorded the step ends the run with
\* InfiniteLoop and changes neither position nor heading.
C15_BumpLogsAndTurnsInPlace ==
    [][/\ (pc = "patrol") =>
              RefBumpStep(map[1], guard[1], guard'[1], pc' = "patrol",
                          pc' = "failed" /\ err' = "InfiniteLoop")
       /\ (pc = "trial") =>
              RefBumpStep(map[1], trial[1], trial'[1], pc' = "trial",
                          pc' = "for" /\ last'[1].status = "InfiniteLoop")]_vars

\* a trial ended by a repeated strike after strikes on three obstacles
C15_Witness ==
    /\ pc = "for"
    /\ last /= None
    /\ last[1].status = "InfiniteLoop"
    /\ Cardinality(DOMAIN trial[1].obstacles) >= 3
    /\ Len(trial[1].visited) >= 2

\* guard g on grid m stands on a tile of the grid that is no obstacle, has
\* only such tiles in visited, and the index its next step reads is in range
RefOnGrid(m, g) ==
    LET InRange(i) == i >= 0 /\ i < Len(m.tiles)
        next == CheckedAddSigned(g.position, ComputeOffset(g, m))
    IN  /\ InRange(g.position)
        /\ m.tiles[g.position + 1] /= Occupied
        /\ \A k \in 1..Len(g.visited) :
              InRange(g.visited[k]) /\ m.tiles[g.visited[k] + 1] /= Occupied
        /\ (next /= None /\ ~IsOutOfBounds(g, next[1], m)) => InRange(next[1])

\* C16: in every state of a patrol on a rectangular grid, baseline run or
\* trial of count_loops, the guard's position is an index of the tile sequence
\* and the tile there is not an obstacle, and so is every index in visited;
\* the tile sequence is never indexed out of range, neither by the patrol
\* step nor by count_loops with its candidates.
C16_GuardStaysOnGrid ==
    /\ (pc = "patrol" \/ BaselineOk \/ BaselineLoop) => RefOnGrid(map[1], guard[1])
    /\ (pc = "trial") => RefOnGrid(map[1], trial[1])
    /\ (pc = "for") => \A t \in remaining : t >= 0 /\ t < Len(map[1].tiles)

\* a trial guard that struck the trial's obstacle and walked on from there
C16_Witness ==
    /\ pc = "trial"
    /\ tile[1] \in DOMAIN trial[1].obstacles
    /\ trial[1].position /= base_guard[1].position
    /\ Len(trial[1].visited) >= 2

\* the indices at which the grid differs from the grid at the call of
\* count_loops
RefChanged == {i \in 0..(Len(map0) - 1) : map[1].tiles[i + 1] /= map0[i + 1]}

\* C17: at every point of count_loops over the tiles visited by the baseline
\* patrol the grid differs from the grid at call entry in at most one tile,
\* the candidate of the running trial: between trials and after the call
\* nothing differs, and a trial runs with exactly one obstacle more.
C17_OneScopedObstacle ==
    /\ (pc \in {"for", "done"}) => (RefChanged = {} /\ tile = None)
    /\ (pc = "trial") =>
          /\ RefChanged = {tile[1]}
          /\ map[1].tiles[tile[1] + 1] = Occupied
          /\ CountObstacles(map[1]) = CountObstacles([tiles |-> map0, width |-> map[1].width]) + 1
          /\ Len(map[1].tiles) = Len(map0)

\* a trial running on its own obstacle after an earlier trial ended in a loop
C17_Witness ==
    /\ pc = "trial"
    /\ last /= None
    /\ last[1].status = "InfiniteLoop"
    /\ last[1].tile /= tile[1]
    /\ hist /= {}

\* C18: for any candidates passed to count_loops, not only tiles visited by
\* the baseline patrol, each candidate tile holds after its trial the tile
\* value it held before the trial; a candidate that was an obstacle is still
\* an obstacle.
C18_CandidateTileKept ==
    (pc = "for" /\ last /= None) =>
        map[1].tiles[last[1].tile + 1] = map0[last[1].tile + 1]

\* C19: trying only the tiles recorded as visited by the baseline patrol loses
\* no placement: when the baseline patrol exits, count_loops over
\* unique_visits returns the number of all Ignored tiles of the grid whose
\* replacement by an obstacle makes the patrol never leave the grid.
C19_VisitedCandidatesSuffice ==
    (pc = "done") =>
        LET m == [tiles |-> map0, width |-> map[1].width]
            start == RefStart(m)
            d == m.tiles[start + 1][2]
        IN  loops = Cardinality({c \in 0..(Len(map0) - 1) :
                                    /\ map0[c + 1] = Ignored
                                    /\ ~RefLeaves(RefObstructed(m, c), start, d)})

(***************************************************************************)
(* day5: what apply_all has to achieve.                                    *)
(***************************************************************************)
\* how often page p occurs in update u
RefCount(u, p) == Cardinality({i \in 1..Len(u) : u[i] = p})

\* u and v hold the same pages, each as often
RefPermutation(u, v) ==
    /\ Len(u) = Len(v)
    /\ \A p \in Pages : RefCount(u, p) = RefCount(v, p)

\* every rule whose two pages are in u has x before y
RefRespectsAll(u, rs) ==
    \A k \in 1..Len(rs) :
        \A i, j \in 1..Len(u) : (u[i] = rs[k].x /\ u[j] = rs[k].y) => i < j

\* C20: for every update without repeated pages and every rule set acyclic on
\* its pages, apply_all ends; the update then satisfies every rule
\* (Update::is_valid) and is a permutation of the original update.
C20_ApplyAllFixesUpdate ==
    (pc = "apply_all") ~>
        /\ pc = "fixed"
        /\ UpdateIsValid(update, rules)
        /\ RefRespectsAll(update, rules)
        /\ RefPermutation(update, update0)

\* apply_all ended on an update that took more than one swap
C20_Witness ==
    /\ pc = "fixed"
    /\ Cardinality({i \in 1..Len(update) : update[i] /= update0[i]}) >= 3
    /\ Len(rules) >= 2
====
